---- MODULE Spec2Model ----
(***************************************************************************)
(* Node registry service (src/unnamed/part_000: launchRegistry) and the    *)
(* cryptographic primitives it uses (src/src/registry/registry.ts, lines   *)
(* 53-391).                                                                *)
(*                                                                         *)
(* JavaScript strings are sequences of UTF-16 code units, byte buffers are *)
(* sequences of 0..255, JavaScript values are records [t, n, s].           *)
(***************************************************************************)
EXTENDS Integers, Sequences

\* Number of HTTP requests one behaviour receives.
MaxReq == 3

\* The registry: the node list, the private-key cache, the requests, and the
\* number of the next RSA key pair the provider generates.
VARIABLES nodeRegistry, privateKeys, reqs, nextKey

\* A use of the primitives: the operation under way (cop) and its position
\* (cpc), the key, payload and random seed it was given (ckey, cdata,
\* cseed), what encryption and decryption returned (cenc, cdec), and the
\* private key decryption was given (cvia).
VARIABLES cop, cpc, ckey, cdata, cseed, cenc, cdec, cvia

rvars == <<nodeRegistry, privateKeys, reqs, nextKey>>
cvars == <<cop, cpc, ckey, cdata, cseed, cenc, cdec, cvia>>
vars == <<nodeRegistry, privateKeys, reqs, nextKey,
          cop, cpc, ckey, cdata, cseed, cenc, cdec, cvia>>

----------------------------------------------------------------------------
(* JavaScript values *)

Undef == [t |-> "undefined", n |-> 0, s |-> <<>>]
Null == [t |-> "null", n |-> 0, s |-> <<>>]
Num(n) == [t |-> "number", n |-> n, s |-> <<>>]
Str(s) == [t |-> "string", n |-> 0, s |-> s]
\* A function object, such as the members of Object.prototype.
Fn == [t |-> "function", n |-> 0, s |-> <<>>]

\* A presence check (x == null) in place of ToBoolean.
Truthy_Presence(v) == v.t \notin {"undefined", "null"}

\* ToBoolean, as applied by `!x` and `if (x)`.
Truthy(v) ==
  CASE v.t = "undefined" -> FALSE
    [] v.t = "null" -> FALSE
    [] v.t = "number" -> v.n # 0
    [] v.t = "string" -> v.s # <<>>
    [] OTHER -> TRUE

----------------------------------------------------------------------------
(* Utils: base64 of Node's Buffer *)

\* The base64 alphabet, as character codes: A-Z a-z 0-9 + /
B64Code(i) ==
  IF i < 26 THEN 65 + i
  ELSE IF i < 52 THEN 97 + (i - 26)
  ELSE IF i < 62 THEN 48 + (i - 52)
  ELSE IF i = 62 THEN 43 ELSE 47

\* The sextet of a character code, 64 for a character outside the alphabet.
\* Buffer.from(s, "base64") also reads the URL-safe '-' and '_'.
B64Index(c) ==
  IF c >= 65 /\ c <= 90 THEN c - 65
  ELSE IF c >= 97 /\ c <= 122 THEN c - 97 + 26
  ELSE IF c >= 48 /\ c <= 57 THEN c - 48 + 52
  ELSE IF c = 43 \/ c = 45 THEN 62
  ELSE IF c = 47 \/ c = 95 THEN 63
  ELSE 64

\* Byte i of a buffer, 0 past its end.
ByteAt(b, i) == IF i <= Len(b) THEN b[i] ELSE 0

\* Character j of the base64 of b: each group of three bytes gives four
\* characters, and a last group of one or two bytes is padded with '='.
B64Enc(b) ==
  [j \in 1..(4 * ((Len(b) + 2) \div 3)) |->
     LET g == 3 * ((j - 1) \div 4)
         pos == (j - 1) % 4
     IN IF pos = 0 THEN B64Code(b[g + 1] \div 4)
        ELSE IF pos = 1 THEN
          B64Code((b[g + 1] % 4) * 16 + ByteAt(b, g + 2) \div 16)
        ELSE IF pos = 2 THEN
          IF g + 2 > Len(b) THEN 61
          ELSE B64Code((b[g + 2] % 16) * 4 + ByteAt(b, g + 3) \div 64)
        ELSE IF g + 3 > Len(b) THEN 61 ELSE B64Code(b[g + 3] % 64)]

\* Buffer.from(buffer).toString("base64")
arrayBufferToBase64(buffer) == B64Enc(buffer)

\* The sextets Node's decoder reads: characters outside the alphabet are
\* skipped, and decoding stops at the first '='.
B64Sextets(s) ==
  LET stop == IF \E i \in 1..Len(s) : s[i] = 61
              THEN CHOOSE i \in 1..Len(s) :
                     s[i] = 61 /\ \A j \in 1..(i - 1) : s[j] # 61
              ELSE Len(s) + 1
      IsSextet(c) == B64Index(c) # 64
      kept == SelectSeq(SubSeq(s, 1, stop - 1), IsSextet)
  IN [i \in 1..Len(kept) |-> B64Index(kept[i])]

\* Four sextets give three bytes; a last group of three gives two bytes, of
\* two one byte (the low bits are dropped), of one none.
B64Dec(x) ==
  LET last == Len(x) % 4
      n == 3 * (Len(x) \div 4) + (IF last < 2 THEN 0 ELSE last - 1)
  IN [i \in 1..n |->
        LET g == 4 * ((i - 1) \div 3)
            pos == (i - 1) % 3
        IN IF pos = 0 THEN x[g + 1] * 4 + x[g + 2] \div 16
           ELSE IF pos = 1 THEN (x[g + 2] % 16) * 16 + x[g + 3] \div 4
           ELSE (x[g + 3] % 4) * 64 + x[g + 4]]

\* Buffer.from(base64, "base64"), sliced out of its pool
base64ToArrayBuffer(base64) == B64Dec(B64Sextets(base64))

----------------------------------------------------------------------------
(* RSA keys *)

\* A CryptoKey: mat is the key material (for an RSA key the pair's number,
\* shared by its two halves), usages the operations it may be used for.
CryptoKey(type, alg, usages, mat) ==
  [type |-> type, alg |-> alg, usages |-> usages, mat |-> mat]

\* `null` where a CryptoKey is expected.
NullKey == CryptoKey("null", "", {}, <<>>)

\* Results of the provider and of the functions built on it: a value or a
\* thrown error.
Ok(v) == [ok |-> TRUE, v |-> v]
Thrown == [ok |-> FALSE, v |-> <<>>]

\* crypto.subtle.generateKey for RSA-OAEP: pair number k stands for the random
\* 2048-bit key; the private half may decrypt, the public half encrypt.
RsaKeyPair(k) ==
  [publicKey |-> CryptoKey("public", "RSA-OAEP", {"encrypt"}, <<k>>),
   privateKey |-> CryptoKey("private", "RSA-OAEP", {"decrypt"}, <<k>>)]

\* crypto.subtle.exportKey: the DER structure is a tag byte, a length and the
\* key material (tag 3 for SubjectPublicKeyInfo, 4 for PrivateKeyInfo; raw
\* is the material itself). `provider` is "ok" or "fail".
subtle_exportKey(format, key, provider) ==
  IF provider # "ok" THEN Thrown
  ELSE IF format = "spki" /\ key.type = "public" THEN
    Ok(<<48, Len(key.mat) + 1, 3>> \o key.mat)
  ELSE IF format = "pkcs8" /\ key.type = "private" THEN
    Ok(<<48, Len(key.mat) + 1, 4>> \o key.mat)
  ELSE IF format = "raw" /\ key.type = "secret" THEN Ok(key.mat)
  ELSE Thrown

\* exportPrvKey: null for a null key, else the base64 of the PKCS#8 bytes.
\* r is "null", "value" or "throw".
exportPrvKey(key, provider) ==
  IF key = NullKey THEN [r |-> "null", s |-> <<>>]
  ELSE LET e == subtle_exportKey("pkcs8", key, provider)
       IN IF e.ok THEN [r |-> "value", s |-> arrayBufferToBase64(e.v)]
          ELSE [r |-> "throw", s |-> <<>>]

----------------------------------------------------------------------------
(* RSA-OAEP *)

\* modulusLength of generateRsaKeyPair, and the byte length of its SHA-256.
modulusLength == 2048
HashLen == 32

\* The longest message RSA-OAEP takes under such a key.
OaepMaxLen == modulusLength \div 8 - 2 * HashLen - 2

\* crypto.subtle.importKey: the inverse of subtle_exportKey; a buffer that
\* is not the structure of `format` is rejected.
subtle_importKey(format, buf, alg, usages) ==
  IF format = "raw" THEN
    IF Len(buf) \in {16, 24, 32} THEN Ok(CryptoKey("secret", alg, usages, buf))
    ELSE Thrown
  ELSE IF Len(buf) >= 4 /\ buf[1] = 48 /\ buf[2] = Len(buf) - 2
          /\ buf[3] = (IF format = "spki" THEN 3 ELSE 4) THEN
    Ok(CryptoKey(IF format = "spki" THEN "public" ELSE "private", alg, usages,
                 SubSeq(buf, 4, Len(buf))))
  ELSE Thrown

\* crypto.subtle.encrypt under RSA-OAEP: the ciphertext names the pair it was
\* made for and the random seed of the padding, and carries the message
\* masked by both. A message longer than OaepMaxLen is rejected.
subtle_rsaEncrypt(key, data, seed) ==
  IF key.type # "public" \/ "encrypt" \notin key.usages
     \/ Len(data) > OaepMaxLen THEN Thrown
  ELSE Ok(<<key.mat[1], seed>>
          \o [i \in 1..Len(data) |-> (data[i] + key.mat[1] + seed) % 256])

\* crypto.subtle.decrypt under RSA-OAEP: a ciphertext made for another pair
\* fails the padding check.
subtle_rsaDecrypt(key, ct) ==
  IF key.type # "private" \/ "decrypt" \notin key.usages \/ Len(ct) < 2
    THEN Thrown
  ELSE IF ct[1] # key.mat[1] THEN Thrown
  ELSE Ok([i \in 1..(Len(ct) - 2) |->
             (ct[i + 2] + 512 - key.mat[1] - ct[2]) % 256])

exportPubKey(key, provider) ==
  LET e == subtle_exportKey("spki", key, provider)
  IN IF e.ok THEN Ok(arrayBufferToBase64(e.v)) ELSE Thrown

importPubKey(strKey) ==
  subtle_importKey("spki", base64ToArrayBuffer(strKey), "RSA-OAEP", {"encrypt"})

\* importPrvKey with the key usage of importPubKey.
importPrvKey_WrongUsage(strKey) ==
  subtle_importKey("pkcs8", base64ToArrayBuffer(strKey), "RSA-OAEP",
                   {"encrypt"})

importPrvKey(strKey) ==
  subtle_importKey("pkcs8", base64ToArrayBuffer(strKey), "RSA-OAEP",
                   {"decrypt"})

\* rsaEncrypt; seed is the randomness the provider draws.
rsaEncrypt(b64Data, strPublicKey, seed) ==
  LET publicKey == importPubKey(strPublicKey)
  IN IF ~publicKey.ok THEN Thrown
     ELSE LET encryptedData ==
                subtle_rsaEncrypt(publicKey.v, base64ToArrayBuffer(b64Data),
                                  seed)
          IN IF encryptedData.ok THEN Ok(arrayBufferToBase64(encryptedData.v))
             ELSE Thrown

rsaDecrypt(data, privateKey) ==
  LET decryptedData == subtle_rsaDecrypt(privateKey, base64ToArrayBuffer(data))
  IN IF decryptedData.ok THEN Ok(arrayBufferToBase64(decryptedData.v))
     ELSE Thrown

----------------------------------------------------------------------------
(* Symmetric keys *)

\* The byte length of the IV symEncrypt draws and symDecrypt splits off.
IvLen == 16
\* The AES block, in bytes.
BlockLen == 16
\* The AES-256 key, in bytes (length: 256).
SymKeyLen == 32

RECURSIVE Xor(_, _)
Xor(a, b) ==
  IF a = 0 THEN b
  ELSE IF b = 0 THEN a
  ELSE ((a + b) % 2) + 2 * Xor(a \div 2, b \div 2)

\* createRandomSymmetricKey: key number k stands for the random 256 bits.
SymKey(k) ==
  CryptoKey("secret", "AES-CBC", {"encrypt", "decrypt"},
            [i \in 1..SymKeyLen |-> (k * 31 + i * 7) % 256])

\* crypto.getRandomValues(new Uint8Array(16)), for the random seed.
RandomIv(seed) == [i \in 1..IvLen |-> (seed * 17 + i * 29) % 256]

\* The block cipher: a keyed permutation of the block's bytes, and its
\* inverse.
BlockEnc(mat, block) ==
  [i \in 1..BlockLen |->
     (block[i] + mat[i] + mat[Len(mat) - i + 1]) % 256]

BlockDec(mat, block) ==
  [i \in 1..BlockLen |->
     (block[i] + 512 - mat[i] - mat[Len(mat) - i + 1])
       % 256]

XorBlock(x, y) == [i \in 1..BlockLen |-> Xor(x[i], y[i])]

\* PKCS#7: one to BlockLen bytes, each the number of bytes added.
Pkcs7Pad(data) ==
  LET n == BlockLen - (Len(data) % BlockLen)
  IN data \o [i \in 1..n |-> n]

RECURSIVE CbcEnc(_, _, _)
CbcEnc(mat, prev, data) ==
  IF Len(data) = 0 THEN <<>>
  ELSE LET c == BlockEnc(mat, XorBlock(SubSeq(data, 1, BlockLen), prev))
       IN c \o CbcEnc(mat, c, SubSeq(data, BlockLen + 1, Len(data)))

RECURSIVE CbcDec(_, _, _)
CbcDec(mat, prev, ct) ==
  IF Len(ct) = 0 THEN <<>>
  ELSE LET c == SubSeq(ct, 1, BlockLen)
       IN XorBlock(BlockDec(mat, c), prev)
          \o CbcDec(mat, c, SubSeq(ct, BlockLen + 1, Len(ct)))

\* crypto.subtle.encrypt under AES-CBC
subtle_aesEncrypt(key, iv, data) ==
  IF key.type # "secret" \/ "encrypt" \notin key.usages \/ Len(iv) # IvLen
    THEN Thrown
  ELSE Ok(CbcEnc(key.mat, iv, Pkcs7Pad(data)))

\* crypto.subtle.decrypt under AES-CBC: the ciphertext is whole blocks and
\* the plaintext ends in its PKCS#7 padding, or the call fails.
subtle_aesDecrypt(key, iv, ct) ==
  IF key.type # "secret" \/ "decrypt" \notin key.usages \/ Len(iv) # IvLen
     \/ Len(ct) = 0 \/ Len(ct) % BlockLen # 0 THEN Thrown
  ELSE LET padded == CbcDec(key.mat, iv, ct)
           n == padded[Len(padded)]
       IN IF n < 1 \/ n > BlockLen
             \/ \E i \in (Len(padded) - n + 1)..Len(padded) : padded[i] # n
          THEN Thrown
          ELSE Ok(SubSeq(padded, 1, Len(padded) - n))

\* UTF-16 surrogates
IsHigh(c) == c >= 55296 /\ c <= 56319
IsLow(c) == c >= 56320 /\ c <= 57343

\* new TextEncoder().encode(data): UTF-8 of the string's code points; a
\* surrogate without its partner is encoded as U+FFFD.
RECURSIVE TextEncode(_)
TextEncode(s) ==
  IF Len(s) = 0 THEN <<>>
  ELSE LET c == s[1]
       IN IF c < 128 THEN <<c>> \o TextEncode(Tail(s))
          ELSE IF c < 2048 THEN
            <<192 + c \div 64, 128 + (c % 64)>> \o TextEncode(Tail(s))
          ELSE IF IsHigh(c) /\ Len(s) >= 2 /\ IsLow(s[2]) THEN
            LET cp == 65536 + (c - 55296) * 1024 + (s[2] - 56320)
            IN <<240 + cp \div 262144, 128 + ((cp \div 4096) % 64),
                 128 + ((cp \div 64) % 64), 128 + (cp % 64)>>
               \o TextEncode(SubSeq(s, 3, Len(s)))
          ELSE IF IsHigh(c) \/ IsLow(c) THEN
            <<239, 191, 189>> \o TextEncode(Tail(s))
          ELSE
            <<224 + c \div 4096, 128 + ((c \div 64) % 64), 128 + (c % 64)>>
            \o TextEncode(Tail(s))

IsCont(b) == b >= 128 /\ b <= 191

\* The UTF-8 decoder: a byte that starts no well-formed sequence becomes
\* U+FFFD.
RECURSIVE Utf8Decode(_)
Utf8Decode(b) ==
  IF Len(b) = 0 THEN <<>>
  ELSE IF b[1] < 128 THEN <<b[1]>> \o Utf8Decode(Tail(b))
  ELSE IF b[1] >= 194 /\ b[1] <= 223 /\ Len(b) >= 2 /\ IsCont(b[2]) THEN
    <<(b[1] - 192) * 64 + (b[2] - 128)>> \o Utf8Decode(SubSeq(b, 3, Len(b)))
  ELSE IF b[1] >= 224 /\ b[1] <= 239 /\ Len(b) >= 3 /\ IsCont(b[2])
          /\ IsCont(b[3])
          /\ (b[1] - 224) * 4096 + (b[2] - 128) * 64 + (b[3] - 128) >= 2048
          /\ ~IsHigh((b[1] - 224) * 4096 + (b[2] - 128) * 64 + (b[3] - 128))
          /\ ~IsLow((b[1] - 224) * 4096 + (b[2] - 128) * 64 + (b[3] - 128))
    THEN
    <<(b[1] - 224) * 4096 + (b[2] - 128) * 64 + (b[3] - 128)>>
    \o Utf8Decode(SubSeq(b, 4, Len(b)))
  ELSE IF b[1] >= 240 /\ b[1] <= 244 /\ Len(b) >= 4 /\ IsCont(b[2])
          /\ IsCont(b[3]) /\ IsCont(b[4]) THEN
    LET cp == (b[1] - 240) * 262144 + (b[2] - 128) * 4096
              + (b[3] - 128) * 64 + (b[4] - 128)
    IN IF cp >= 65536 /\ cp <= 1114111 THEN
         <<55296 + (cp - 65536) \div 1024, 56320 + ((cp - 65536) % 1024)>>
         \o Utf8Decode(SubSeq(b, 5, Len(b)))
       ELSE <<65533>> \o Utf8Decode(Tail(b))
  ELSE <<65533>> \o Utf8Decode(Tail(b))

\* new TextDecoder().decode(buf): ignoreBOM is false by default, so a
\* leading byte order mark U+FEFF is taken off the decoded text.
TextDecode(buf) ==
  LET u == Utf8Decode(buf)
  IN IF Len(u) > 0 /\ u[1] = 65279 THEN Tail(u) ELSE u

exportSymKey(key, provider) ==
  LET e == subtle_exportKey("raw", key, provider)
  IN IF e.ok THEN Ok(arrayBufferToBase64(e.v)) ELSE Thrown

importSymKey(strKey) ==
  subtle_importKey("raw", base64ToArrayBuffer(strKey), "AES-CBC",
                   {"encrypt", "decrypt"})

\* symEncrypt; seed is the randomness getRandomValues draws.
symEncrypt(key, data, seed) ==
  LET iv == RandomIv(seed)
      encryptedData == subtle_aesEncrypt(key, iv, TextEncode(data))
  IN IF encryptedData.ok THEN Ok(arrayBufferToBase64(iv \o encryptedData.v))
     ELSE Thrown

\* symDecrypt: slice(0, 16) is the IV, slice(16) the ciphertext.
symDecrypt(strKey, encryptedData) ==
  LET symmetricKey == importSymKey(strKey)
      arrayBuffer == base64ToArrayBuffer(encryptedData)
      n == Len(arrayBuffer)
      iv == SubSeq(arrayBuffer, 1, IF n < 16 THEN n ELSE 16)
      encryptedBytes == SubSeq(arrayBuffer, IF n < 16 THEN n + 1 ELSE 17, n)
  IN IF ~symmetricKey.ok THEN Thrown
     ELSE LET decryptedData ==
                subtle_aesDecrypt(symmetricKey.v, iv, encryptedBytes)
          IN IF decryptedData.ok THEN Ok(TextDecode(decryptedData.v))
             ELSE Thrown

----------------------------------------------------------------------------
(* The registry: state *)

\* The :nodeId path parameters requests are made with. "constructor" is also
\* the name of a member of Object.prototype.
PathIds == {"1", "2", "constructor"}

\* Function-valued members every plain object inherits.
ObjectPrototypeProps ==
  {"constructor", "toString", "valueOf", "hasOwnProperty", "isPrototypeOf"}

\* The bodies POST /registerNode is made with: {}, {nodeId: 0, pubKey: "k"},
\* {nodeId: null, pubKey: "k"}, {nodeId: 5, pubKey: ""}, {nodeId: 5}, and
\* the complete {nodeId: 5, pubKey: "k"}, {nodeId: 7, pubKey: "k"}.
RegisterBodies ==
  {[nodeId |-> Undef, pubKey |-> Undef],
   [nodeId |-> Num(0), pubKey |-> Str(<<107>>)],
   [nodeId |-> Null, pubKey |-> Str(<<107>>)],
   [nodeId |-> Num(5), pubKey |-> Str(<<>>)],
   [nodeId |-> Num(5), pubKey |-> Undef],
   [nodeId |-> Num(5), pubKey |-> Str(<<107>>)],
   [nodeId |-> Num(7), pubKey |-> Str(<<107>>)]}

\* A request slot before its request arrives. pc is the request's position:
\* "free", "pending" (received, handler not yet run), "awaitGen" and
\* "awaitExport" (the handler is suspended at line 63 or 66), "done".
\* nresp counts the responses sent, branch names the path that answered.
\* afterFailure records that, when the handler of a private-key request
\* started, a request for the same id had already been answered 500.
FreeReq ==
  [op |-> "none", pc |-> "free", nodeId |-> Undef, pubKey |-> Undef,
   id |-> "", key |-> NullKey, status |-> 0, text |-> "", result |-> Undef,
   nodes |-> <<>>, nresp |-> 0, hung |-> FALSE, branch |-> "",
   afterFailure |-> FALSE]

Reqs == 1..MaxReq

\* obj[id] on the plain object `privateKeys`: an own property, else what the
\* prototype chain holds, else undefined.
GetProp(obj, id) ==
  IF id \in DOMAIN obj THEN Str(obj[id])
  ELSE IF id \in ObjectPrototypeProps THEN Fn
  ELSE Undef

\* obj[id] = s
SetProp(obj, id, s) ==
  [k \in DOMAIN obj \cup {id} |-> IF k = id THEN s ELSE obj[k]]

\* What JSON.stringify keeps of a property value: a function or undefined
\* is left out of the body.
JsonValue(v) == IF v.t \in {"function", "undefined"} THEN Undef ELSE v

\* res.status(status).json(...) / res.send(...): the request is answered.
Respond(r, status, text, result, nodes, branch) ==
  reqs' = [reqs EXCEPT ![r] =
             [@ EXCEPT !.pc = "done", !.status = status, !.text = text,
                       !.result = result, !.nodes = nodes,
                       !.nresp = @ + 1, !.branch = branch]]

Init ==
  /\ nodeRegistry = <<>>
  /\ privateKeys = [k \in {} |-> <<>>]
  /\ reqs = [r \in Reqs |-> FreeReq]
  /\ nextKey = 1
  /\ cop = "none" /\ cpc = "start" /\ ckey = 0 /\ cdata = <<>> /\ cseed = 0
  /\ cenc = Thrown /\ cdec = Thrown /\ cvia = "none"

----------------------------------------------------------------------------
(* The registry: operations *)

\* A request arrives; slots are taken in order.
Arrive(r, op, nodeId, pubKey, id) ==
  /\ UNCHANGED cvars
  /\ reqs[r].pc = "free"
  /\ IF r = 1 THEN TRUE ELSE reqs[r - 1].pc # "free"
  /\ reqs' = [reqs EXCEPT ![r] =
                [@ EXCEPT !.op = op, !.pc = "pending", !.nodeId = nodeId,
                          !.pubKey = pubKey, !.id = id]]
  /\ UNCHANGED <<nodeRegistry, privateKeys, nextKey>>

\* A loop that a handler holds until it has answered, as a handler calling
\* the provider synchronously would.
Runnable_Blocking(r) ==
  /\ reqs[r].pc = "pending"
  /\ \A q \in Reqs : reqs[q].pc \notin {"awaitGen", "awaitExport"}

\* The event loop runs a received request's handler whenever no handler is
\* running: handlers yield at every await, so a suspended one holds nothing.
Runnable(r) == reqs[r].pc = "pending"

\* GET /status
Status(r) ==
  /\ UNCHANGED cvars
  /\ Runnable(r) /\ reqs[r].op = "status"
  /\ Respond(r, 200, "live", Undef, <<>>, "")
  /\ UNCHANGED <<nodeRegistry, privateKeys, nextKey>>

\* GET /getNodeRegistry
GetNodeRegistry(r) ==
  /\ UNCHANGED cvars
  /\ Runnable(r) /\ reqs[r].op = "list"
  /\ Respond(r, 200, "", Undef, nodeRegistry, "")
  /\ UNCHANGED <<nodeRegistry, privateKeys, nextKey>>

\* POST /registerNode with a uniqueness check on nodeId.
RegisterNode_Unique(r) ==
  /\ UNCHANGED cvars
  /\ Runnable(r) /\ reqs[r].op = "register"
  /\ LET nodeId == reqs[r].nodeId
         pubKey == reqs[r].pubKey
     IN IF ~Truthy(nodeId) \/ ~Truthy(pubKey) THEN
          /\ Respond(r, 400,
                     "Node ID and public key are required for registration",
                     Undef, <<>>, "")
          /\ UNCHANGED nodeRegistry
        ELSE
          /\ nodeRegistry' =
               IF \E i \in 1..Len(nodeRegistry) :
                    nodeRegistry[i].nodeId = nodeId
               THEN nodeRegistry
               ELSE Append(nodeRegistry,
                           [nodeId |-> nodeId, pubKey |-> pubKey])
          /\ Respond(r, 201, "Node registered successfully", Undef, <<>>, "")
  /\ UNCHANGED <<privateKeys, nextKey>>

\* POST /registerNode
RegisterNode(r) ==
  /\ UNCHANGED cvars
  /\ Runnable(r) /\ reqs[r].op = "register"
  /\ LET nodeId == reqs[r].nodeId
         pubKey == reqs[r].pubKey
     IN IF ~Truthy(nodeId) \/ ~Truthy(pubKey) THEN
          /\ Respond(r, 400,
                     "Node ID and public key are required for registration",
                     Undef, <<>>, "")
          /\ UNCHANGED nodeRegistry
        ELSE
          /\ nodeRegistry' =
               Append(nodeRegistry, [nodeId |-> nodeId, pubKey |-> pubKey])
          /\ Respond(r, 201, "Node registered successfully", Undef, <<>>, "")
  /\ UNCHANGED <<privateKeys, nextKey>>

\* GET /getPrivateKey/:nodeId, lines 54-63: the cache check, then the call
\* of generateRsaKeyPair, at which the handler is suspended.
GetPrivateKey(r) ==
  /\ UNCHANGED cvars
  /\ Runnable(r) /\ reqs[r].op = "getkey"
  /\ LET nodeId == reqs[r].id
     IN IF Truthy(GetProp(privateKeys, nodeId)) THEN
          Respond(r, 200, "", JsonValue(GetProp(privateKeys, nodeId)), <<>>,
                  "hit")
        ELSE
          reqs' = [reqs EXCEPT
                     ![r].pc = "awaitGen",
                     ![r].afterFailure =
                       \E q \in Reqs : /\ reqs[q].pc = "done"
                                        /\ reqs[q].branch = "failed"
                                        /\ reqs[q].id = nodeId]
  /\ UNCHANGED <<nodeRegistry, privateKeys, nextKey>>

\* Lines 69-77 with the store of line 71 moved before the null check.
StoreAndRespond_StoreNull(r, privateKeyString) ==
  /\ privateKeys' = SetProp(privateKeys, reqs[r].id, privateKeyString.s)
  /\ IF privateKeyString.r = "value" THEN
       Respond(r, 200, "", Str(privateKeyString.s), <<>>, "generated")
     ELSE
       Respond(r, 500, "Internal Server Error", Undef, <<>>, "failed")

\* Lines 69-77 with a second look at the cache before the store: the first
\* key stored for an id is kept and returned.
StoreAndRespond_KeepFirst(r, privateKeyString) ==
  IF privateKeyString.r = "value" THEN
    IF reqs[r].id \in DOMAIN privateKeys THEN
      /\ Respond(r, 200, "", Str(privateKeys[reqs[r].id]), <<>>, "generated")
      /\ UNCHANGED privateKeys
    ELSE
      /\ privateKeys' = SetProp(privateKeys, reqs[r].id, privateKeyString.s)
      /\ Respond(r, 200, "", Str(privateKeyString.s), <<>>, "generated")
  ELSE
    /\ Respond(r, 500, "Internal Server Error", Undef, <<>>, "failed")
    /\ UNCHANGED privateKeys

\* Lines 69-77, with the exported string or null in hand.
StoreAndRespond(r, privateKeyString) ==
  IF privateKeyString.r = "value" THEN
    /\ privateKeys' = SetProp(privateKeys, reqs[r].id, privateKeyString.s)
    /\ Respond(r, 200, "", Str(privateKeyString.s), <<>>, "generated")
  ELSE
    /\ Respond(r, 500, "Internal Server Error", Undef, <<>>, "failed")
    /\ UNCHANGED privateKeys

\* generateRsaKeyPair settles, line 63. outcome "ok": a fresh pair, and the
\* handler goes on to call exportPrvKey and is suspended at line 66;
\* "nokey": the pair has no private half, exportPrvKey returns null without
\* reaching the provider, lines 119-121, and line 76 answers; "throw": the
\* provider failed, lines 96-98, and the catch of line 78 answers.
GenerateSettles(r, outcome) ==
  /\ UNCHANGED cvars
  /\ reqs[r].pc = "awaitGen" /\ ~reqs[r].hung
  /\ UNCHANGED nodeRegistry
  /\ CASE outcome = "ok" ->
            /\ reqs' = [reqs EXCEPT ![r].pc = "awaitExport",
                                    ![r].key = RsaKeyPair(nextKey).privateKey]
            /\ nextKey' = nextKey + 1
            /\ UNCHANGED privateKeys
       [] outcome = "nokey" ->
            /\ StoreAndRespond(r, exportPrvKey(NullKey, "ok"))
            /\ UNCHANGED nextKey
       [] OTHER ->
            /\ Respond(r, 500, "Internal Server Error", Undef, <<>>, "failed")
            /\ UNCHANGED <<privateKeys, nextKey>>

\* exportPrvKey settles, line 66, and lines 69-81 answer.
ExportSettles(r, provider) ==
  /\ UNCHANGED cvars
  /\ reqs[r].pc = "awaitExport" /\ ~reqs[r].hung
  /\ UNCHANGED <<nodeRegistry, nextKey>>
  /\ LET privateKeyString == exportPrvKey(reqs[r].key, provider)
     IN IF privateKeyString.r = "throw" THEN
          /\ Respond(r, 500, "Internal Server Error", Undef, <<>>, "failed")
          /\ UNCHANGED privateKeys
        ELSE StoreAndRespond(r, privateKeyString)

\* The provider call a handler awaits never settles.
Hang(r) ==
  /\ UNCHANGED cvars
  /\ reqs[r].pc \in {"awaitGen", "awaitExport"} /\ ~reqs[r].hung
  /\ reqs' = [reqs EXCEPT ![r].hung = TRUE]
  /\ UNCHANGED <<nodeRegistry, privateKeys, nextKey>>

Next ==
  \/ \E r \in Reqs : Arrive(r, "status", Undef, Undef, "")
  \/ \E r \in Reqs : Arrive(r, "list", Undef, Undef, "")
  \/ \E r \in Reqs, b \in RegisterBodies :
       Arrive(r, "register", b.nodeId, b.pubKey, "")
  \/ \E r \in Reqs, id \in PathIds : Arrive(r, "getkey", Undef, Undef, id)
  \/ \E r \in Reqs : Status(r)
  \/ \E r \in Reqs : GetNodeRegistry(r)
  \/ \E r \in Reqs : RegisterNode(r)
  \/ \E r \in Reqs : GetPrivateKey(r)
  \/ \E r \in Reqs, o \in {"ok", "nokey", "throw"} : GenerateSettles(r, o)
  \/ \E r \in Reqs, p \in {"ok", "fail"} : ExportSettles(r, p)
  \/ \E r \in Reqs : Hang(r)

Spec == Init /\ [][Next]_vars

\* The handler of request r, and the settling of the provider call it awaits.
Handle(r) ==
  Status(r) \/ GetNodeRegistry(r) \/ RegisterNode(r) \/ GetPrivateKey(r)

Settle(r) ==
  \/ \E o \in {"ok", "nokey", "throw"} : GenerateSettles(r, o)
  \/ \E p \in {"ok", "fail"} : ExportSettles(r, p)

\* Every received request's handler is eventually run, and every provider
\* call that is not hung eventually settles.
Fairness == \A r \in Reqs : WF_vars(Handle(r)) /\ WF_vars(Settle(r))

LiveSpec == Init /\ [][Next]_vars /\ Fairness

----------------------------------------------------------------------------
(* Properties of the registry *)

Answered(r) == reqs[r].pc = "done"
KeyOk(r) == Answered(r) /\ reqs[r].op = "getkey" /\ reqs[r].status = 200

\* C1: once a request for a nodeId has been answered with key K, every
\* request for that nodeId answered afterwards returns K: any two answered
\* requests for one nodeId carry the same key.
C1_IdempotentIssuance ==
  \A a, b \in Reqs :
    (KeyOk(a) /\ KeyOk(b) /\ reqs[a].id = reqs[b].id)
      => reqs[b].result = reqs[a].result

\* C2: an entry of privateKeys is never replaced nor removed, and an entry
\* for id appears only in a step that answers a private-key request for id.
C2_WriteOnce ==
  [][/\ \A id \in DOMAIN privateKeys :
          id \in DOMAIN privateKeys' /\ privateKeys'[id] = privateKeys[id]
     /\ \A id \in DOMAIN privateKeys' \ DOMAIN privateKeys :
          \E r \in Reqs : /\ reqs[r].op = "getkey" /\ reqs[r].id = id
                          /\ ~Answered(r) /\ reqs'[r].pc = "done"]_vars

\* The values the claim C3 calls falsy or absent.
FalsyInputs == {Undef, Null, Num(0), Str(<<>>)}

\* C3: a registration whose nodeId or pubKey is falsy or absent is answered
\* 400 with the validation error and leaves the node list unchanged; any
\* other registration is answered 201.
C3_RegisterValidation ==
  [][\A r \in Reqs :
       (reqs[r].op = "register" /\ ~Answered(r) /\ reqs'[r].pc = "done") =>
         IF reqs[r].nodeId \in FalsyInputs \/ reqs[r].pubKey \in FalsyInputs
         THEN /\ reqs'[r].status = 400
              /\ reqs'[r].text =
                   "Node ID and public key are required for registration"
              /\ nodeRegistry' = nodeRegistry
         ELSE reqs'[r].status = 201]_vars

C3_Witness ==
  \E a, b, c \in Reqs :
    /\ Answered(a) /\ reqs[a].op = "register" /\ reqs[a].status = 400
    /\ reqs[a].nodeId = Num(0) /\ reqs[a].pubKey = Str(<<107>>)
    /\ Answered(b) /\ reqs[b].op = "register" /\ reqs[b].status = 400
    /\ reqs[b].nodeId = Num(5) /\ reqs[b].pubKey = Str(<<>>)
    /\ Answered(c) /\ reqs[c].op = "register" /\ reqs[c].status = 201
    /\ Len(nodeRegistry) = 1

\* C4: a step changes the node list only by appending the {nodeId, pubKey}
\* of the registration it accepts (answers 201), whether or not that nodeId
\* is already listed; every other step leaves the list as it is, and
\* getNodeRegistry answers with the list as it stands.
C4_NodeListAppendOnly ==
  [][/\ \/ nodeRegistry' = nodeRegistry
        \/ \E r \in Reqs :
             /\ reqs[r].op = "register" /\ ~Answered(r)
             /\ reqs'[r].pc = "done" /\ reqs'[r].status = 201
             /\ nodeRegistry' =
                  Append(nodeRegistry,
                         [nodeId |-> reqs[r].nodeId, pubKey |-> reqs[r].pubKey])
     /\ \A r \in Reqs :
          (reqs[r].op = "register" /\ ~Answered(r) /\ reqs'[r].pc = "done"
             /\ reqs'[r].status = 201) =>
            Len(nodeRegistry') = Len(nodeRegistry) + 1
     /\ \A r \in Reqs :
          (reqs[r].op = "list" /\ ~Answered(r) /\ reqs'[r].pc = "done") =>
            reqs'[r].nodes = nodeRegistry]_vars

C4_Witness ==
  /\ Len(nodeRegistry) = 2
  /\ nodeRegistry[1].nodeId = nodeRegistry[2].nodeId
  /\ \E r \in Reqs : /\ Answered(r) /\ reqs[r].op = "list"
                     /\ reqs[r].nodes = nodeRegistry

\* C5: a private-key request whose generation or export fails, or whose
\* export yields null, is answered 500 "Internal Server Error" once and
\* leaves privateKeys unchanged; no request is answered twice; a request for
\* an id that is handled after such a failure, while privateKeys has no
\* entry for the id, goes to generation again.
C5_FailureNotCached ==
  [][\A r \in Reqs :
       /\ (reqs[r].op = "getkey" /\ ~Answered(r) /\ reqs'[r].pc = "done"
             /\ reqs'[r].branch = "failed") =>
            /\ reqs'[r].status = 500
            /\ reqs'[r].text = "Internal Server Error"
            /\ reqs[r].nresp = 0 /\ reqs'[r].nresp = 1
            /\ privateKeys' = privateKeys
       /\ (Answered(r) /\ reqs[r].branch = "failed") =>
            /\ reqs'[r] = reqs[r]
            /\ reqs[r].id \notin DOMAIN privateKeys =>
                 \A q \in Reqs :
                   (reqs[q].op = "getkey" /\ reqs[q].id = reqs[r].id
                      /\ reqs[q].pc = "pending" /\ reqs'[q].pc # "pending") =>
                     reqs'[q].pc = "awaitGen"
       /\ (reqs[r].pc = "awaitGen" /\ reqs'[r].pc = "done") =>
            reqs'[r].branch = "failed"
       /\ (reqs[r].pc = "awaitExport" /\ reqs'[r].pc = "done"
             /\ reqs'[r].status = 200) =>
            reqs[r].key # NullKey]_vars

C5_Witness ==
  \E a, b \in Reqs :
    /\ Answered(a) /\ reqs[a].branch = "failed" /\ reqs[a].status = 500
    /\ reqs[a].nresp = 1
    /\ Answered(b) /\ reqs[b].id = reqs[a].id /\ reqs[b].afterFailure
    /\ reqs[b].branch = "generated"

\* C8: nothing joins concurrent requests for one id. A request handled while
\* privateKeys has no entry for its id goes to generation even when another
\* request for the id is already suspended there; each generating request
\* that succeeds writes its own key over whatever the entry holds and
\* returns it; and a cache hit returns the entry as it then stands. So of
\* two racing first requests the later write is what the registry serves.
C8_LastWriteWins ==
  [][\A r \in Reqs :
       /\ (reqs[r].op = "getkey" /\ reqs[r].pc = "pending"
             /\ reqs'[r].pc # "pending" /\ reqs[r].id \notin DOMAIN privateKeys
             /\ reqs[r].id \notin ObjectPrototypeProps) =>
            reqs'[r].pc = "awaitGen"
       /\ (reqs[r].pc = "awaitExport" /\ reqs'[r].pc = "done"
             /\ reqs'[r].status = 200) =>
            /\ reqs[r].id \in DOMAIN privateKeys'
            /\ privateKeys'[reqs[r].id] = reqs'[r].result.s
            /\ reqs'[r].result.s =
                 arrayBufferToBase64(<<48, 2, 4>> \o reqs[r].key.mat)
       /\ (reqs[r].pc = "pending" /\ reqs'[r].pc = "done"
             /\ reqs'[r].branch = "hit" /\ reqs[r].id \in DOMAIN privateKeys) =>
            reqs'[r].result = Str(privateKeys[reqs[r].id])]_vars

C8_Witness ==
  \E a, b \in Reqs :
    /\ KeyOk(a) /\ KeyOk(b) /\ reqs[a].id = reqs[b].id
    /\ reqs[a].branch = "generated" /\ reqs[b].branch = "generated"
    /\ reqs[a].result # reqs[b].result
    /\ Str(privateKeys[reqs[a].id]) = reqs[b].result
    /\ \E c \in Reqs : /\ KeyOk(c) /\ reqs[c].branch = "hit"
                       /\ reqs[c].id = reqs[a].id
                       /\ reqs[c].result = reqs[b].result

\* C9: at every moment, a moment follows at which every request received so
\* far is answered, except those whose own provider call hangs: a hung call
\* keeps no other request from being handled and answered.
C9_HungStallsOnlyItself ==
  []<>(\A r \in Reqs : reqs[r].pc \in {"free", "done"} \/ reqs[r].hung)

C9_Witness ==
  \E a, b, c \in Reqs :
    /\ reqs[a].hung /\ ~Answered(a)
    /\ a < b /\ KeyOk(b) /\ reqs[b].id = reqs[a].id
    /\ reqs[b].branch = "generated"
    /\ a < c /\ Answered(c) /\ reqs[c].op = "register" /\ reqs[c].status = 201

\* C10: a request is answered from the cache-hit branch only if privateKeys
\* holds an entry stored for its id, and every 200 answer carries a string:
\* the base64 of a PKCS#8 structure.
C10_HitOnlyAfterStore ==
  \A r \in Reqs :
    /\ (Answered(r) /\ reqs[r].branch = "hit") =>
         reqs[r].id \in DOMAIN privateKeys
    /\ KeyOk(r) =>
         /\ reqs[r].result.t = "string"
         /\ Len(base64ToArrayBuffer(reqs[r].result.s)) >= 4
         /\ SubSeq(base64ToArrayBuffer(reqs[r].result.s), 1, 3) = <<48, 2, 4>>
----------------------------------------------------------------------------
(* Uses of the primitives *)

\* Bounds of the inputs.
MaxTextLen == 2
MaxB64Len == 4
MaxKeys == 2
MaxSeed == 1

\* Code units of text payloads: A, e-acute, the euro sign, U+FEFF, and the
\* two surrogates of U+1F600.
TextUnits == {65, 233, 8364, 65279, 55357, 56832}

\* Text payloads: every string of up to MaxTextLen units, and two that fill
\* one block exactly and pass it.
TextPayloads ==
  UNION {[1..n -> TextUnits] : n \in 0..MaxTextLen}
    \cup {[i \in 1..16 |-> 65], [i \in 1..17 |-> 65]}

\* Characters of base64 payloads: Q, R and the padding '='.
B64Units == {81, 82, 61}

\* base64 payloads: every string of up to MaxB64Len characters, and one of
\* 256 characters, which decodes to 192 bytes.
B64Payloads ==
  UNION {[1..n -> B64Units] : n \in 0..MaxB64Len} \cup {[i \in 1..256 |-> 81]}

\* symEncrypt(key, data) with a key of createRandomSymmetricKey.
SymEncrypt(k, data, seed) ==
  /\ cpc = "start"
  /\ cop' = "sym" /\ cpc' = "encrypted"
  /\ ckey' = k /\ cdata' = data /\ cseed' = seed
  /\ cenc' = symEncrypt(SymKey(k), data, seed)
  /\ UNCHANGED <<cdec, cvia>>
  /\ UNCHANGED rvars

\* symDecrypt(await exportSymKey(key), encrypted)
SymDecrypt ==
  /\ cpc = "encrypted" /\ cop = "sym" /\ cenc.ok
  /\ cdec' = symDecrypt(exportSymKey(SymKey(ckey), "ok").v, cenc.v)
  /\ cpc' = "decrypted"
  /\ UNCHANGED <<cop, ckey, cdata, cseed, cenc, cvia>>
  /\ UNCHANGED rvars

\* rsaEncrypt(b64Data, await exportPubKey(publicKey)) with a pair of
\* generateRsaKeyPair.
RsaEncrypt(k, b64Data, seed) ==
  /\ cpc = "start"
  /\ cop' = "rsa" /\ cpc' = "encrypted"
  /\ ckey' = k /\ cdata' = b64Data /\ cseed' = seed
  /\ cenc' = rsaEncrypt(b64Data,
                        exportPubKey(RsaKeyPair(k).publicKey, "ok").v, seed)
  /\ UNCHANGED <<cdec, cvia>>
  /\ UNCHANGED rvars

\* Encryption under the generated public key itself, lines 194-206.
RsaEncryptDirect(k, b64Data, seed) ==
  /\ cpc = "start"
  /\ cop' = "rsaDirect" /\ cpc' = "encrypted"
  /\ ckey' = k /\ cdata' = b64Data /\ cseed' = seed
  /\ cenc' = LET e == subtle_rsaEncrypt(RsaKeyPair(k).publicKey,
                                        base64ToArrayBuffer(b64Data), seed)
             IN IF e.ok THEN Ok(arrayBufferToBase64(e.v)) ELSE Thrown
  /\ UNCHANGED <<cdec, cvia>>
  /\ UNCHANGED rvars

\* rsaDecrypt(encrypted, privateKey), privateKey being the generated key
\* ("original") or importPrvKey(await exportPrvKey(privateKey))
\* ("imported").
RsaDecrypt(via) ==
  /\ cpc = "encrypted" /\ cop \in {"rsa", "rsaDirect"} /\ cenc.ok
  /\ LET prv == RsaKeyPair(ckey).privateKey
         imp == importPrvKey(exportPrvKey(prv, "ok").s)
     IN cdec' = IF via = "original" THEN rsaDecrypt(cenc.v, prv)
                ELSE IF imp.ok THEN rsaDecrypt(cenc.v, imp.v)
                ELSE Thrown
  /\ cpc' = "decrypted" /\ cvia' = via
  /\ UNCHANGED <<cop, ckey, cdata, cseed, cenc>>
  /\ UNCHANGED rvars

CryptoNext ==
  \/ \E k \in 1..MaxKeys, d \in TextPayloads, s \in 0..MaxSeed :
       SymEncrypt(k, d, s)
  \/ SymDecrypt
  \/ \E k \in 1..MaxKeys, d \in B64Payloads, s \in 0..MaxSeed :
       RsaEncrypt(k, d, s)
  \/ \E k \in 1..MaxKeys, d \in B64Payloads, s \in 0..MaxSeed :
       RsaEncryptDirect(k, d, s)
  \/ \E via \in {"original", "imported"} : RsaDecrypt(via)

CryptoSpec == Init /\ [][CryptoNext]_vars

----------------------------------------------------------------------------
(* Properties of the primitives *)

\* A string whose surrogates all come in pairs: a text.
RECURSIVE WellFormed(_)
WellFormed(s) ==
  IF Len(s) = 0 THEN TRUE
  ELSE IF IsHigh(s[1]) THEN
    Len(s) >= 2 /\ IsLow(s[2]) /\ WellFormed(SubSeq(s, 3, Len(s)))
  ELSE ~IsLow(s[1]) /\ WellFormed(Tail(s))

\* C6: symDecrypt(exportSymKey(key), symEncrypt(key, payload)) is payload,
\* for every key, every text payload and every IV symEncrypt draws.
C6_SymRoundTrip ==
  (cop = "sym" /\ cpc = "decrypted" /\ WellFormed(cdata)) => cdec = Ok(cdata)

\* What does hold of the symmetric round trip: encryption always succeeds,
\* the IV is the first IvLen bytes of what it returns, another IV gives
\* another ciphertext, and decryption returns every text that does not
\* start with U+FEFF.
C6_SymRoundTripOfPlainText ==
  /\ (cop = "sym" /\ cpc # "start") =>
       /\ cenc.ok
       /\ \A s \in 0..MaxSeed :
            s # cseed => symEncrypt(SymKey(ckey), cdata, s) # cenc
       /\ SubSeq(base64ToArrayBuffer(cenc.v), 1, IvLen) = RandomIv(cseed)
  /\ (cop = "sym" /\ cpc = "decrypted" /\ WellFormed(cdata)
        /\ (Len(cdata) = 0 \/ cdata[1] # 65279)) =>
       cdec = Ok(cdata)

\* A string of RFC 4648 base64: groups of four characters of the alphabet,
\* the last group ending in at most two '='.
IsB64Char(c) ==
  \/ c >= 65 /\ c <= 90
  \/ c >= 97 /\ c <= 122
  \/ c >= 48 /\ c <= 57
  \/ c = 43
  \/ c = 47

IsBase64(s) ==
  /\ Len(s) % 4 = 0
  /\ \A i \in 1..Len(s) :
       \/ IsB64Char(s[i])
       \/ /\ s[i] = 61 /\ i >= Len(s) - 1
          /\ \A j \in (i + 1)..Len(s) : s[j] = 61

\* Such a string is canonical if the bits of its last character that no
\* byte takes are zero.
IsCanonicalBase64(s) ==
  /\ IsBase64(s)
  /\ (Len(s) > 0 /\ s[Len(s)] = 61 /\ s[Len(s) - 1] # 61) =>
       B64Index(s[Len(s) - 1]) % 4 = 0
  /\ (Len(s) > 0 /\ s[Len(s)] = 61 /\ s[Len(s) - 1] = 61) =>
       B64Index(s[Len(s) - 2]) % 16 = 0

\* The number of bytes a payload decodes to.
DecodedLen(s) == Len(base64ToArrayBuffer(s))

\* C7, as claimed: for every base64 payload within the size bound,
\* decryption of its encryption returns the payload, under the generated
\* private key and under the re-imported one.
C7_RsaRoundTripIsPayload ==
  (cop \in {"rsa", "rsaDirect"} /\ cpc = "decrypted" /\ IsBase64(cdata)) =>
    cdec = Ok(cdata)

\* C7, amended: encryption succeeds exactly for the payloads that decode to
\* at most OaepMaxLen bytes; decryption, under the generated private key or
\* the re-imported one, of what was encrypted under the re-imported public
\* key or the generated one, then returns the canonical base64 of the bytes
\* the payload decodes to, which is the payload itself when the payload is
\* canonical base64.
C7_RsaRoundTripCanonical ==
  /\ (cop \in {"rsa", "rsaDirect"} /\ cpc # "start") =>
       (cenc.ok <=> DecodedLen(cdata) <= 190)
  /\ (cop \in {"rsa", "rsaDirect"} /\ cpc = "decrypted") =>
       /\ cdec.ok
       /\ IsCanonicalBase64(cdec.v)
       /\ base64ToArrayBuffer(cdec.v) = base64ToArrayBuffer(cdata)
       /\ IsCanonicalBase64(cdata) => cdec.v = cdata

C7_Witness ==
  /\ cop = "rsa" /\ cpc = "decrypted" /\ cvia = "imported"
  /\ cdata = <<81, 81, 81, 61>>
  /\ cdec = Ok(cdata)

====
